---- MODULE Spec2Model ----
(***************************************************************************)
(* A model of lib/ejs.js: the include resolver (getIncludePath,            *)
(* Template.includeFile / includeSource, the runtime include closure and   *)
(* the include function embedded in client programs), the filename cache   *)
(* of exports.compile, the error reporter rethrow and the content          *)
(* normalisation of Template.generateSource.                               *)
(*                                                                         *)
(* Strings are sequences of tokens ("/" is a token, ".ejs" is a token), so *)
(* that charAt, lastIndexOf, substr and concatenation are computed as the  *)
(* code computes them.  A template text is the sequence of its tags.       *)
(***************************************************************************)
EXTENDS Integers, Sequences, FiniteSets, TLC

VARIABLES
  cache,      \* exports.cache: filename -> function (id into funcs)
  templates,  \* the Template objects created so far: opts, pathStack, dependencies
  funcs,      \* every function object created so far (new Function / returnedFn)
  stack,      \* the JavaScript call stack of the call in progress (top = last)
  result,     \* outcome of the last top-level call
  returned,   \* functions handed back to callers of exports.compile
  incDone,    \* history: the include resolutions that finished in the last step
  lastRes,    \* history: the last path resolution includeFile performed
  asmCount,   \* history: <<template, filename>> -> times includeFile assembled it
  topAsm,     \* history: filename -> cached top-level assemblies since the last reset
  lastCall,   \* history: the last exports.compile call and what it returned
  calls,    \* number of top-level calls made so far
  pin,        \* input of the pure function under check (rethrow, normalisation)
  pout        \* its output

vars == <<cache, templates, funcs, stack, result, returned, incDone, lastRes,
          asmCount, topAsm, lastCall, calls, pin, pout>>

progVars == <<cache, templates, funcs, stack, result, returned, incDone, lastRes,
              asmCount, topAsm, lastCall, calls>>

Max(a, b) == IF a >= b THEN a ELSE b

Min(a, b) == IF a <= b THEN a ELSE b

None == "none"

-----------------------------------------------------------------------------
(* Strings as token sequences.                                             *)

Slash == "/"

Ext == ".ejs"

\* the value `undefined` where a string is expected
Undef == <<"undefined">>

\* s.lastIndexOf('/'), 1-based; 0 when there is no slash (JavaScript's -1)
LastSlash(s) ==
  LET idx == {i \in 1..Len(s) : s[i] = Slash}
  IN  IF idx = {} THEN 0 ELSE CHOOSE i \in idx : \A j \in idx : j <= i

\* path.charAt(0) == '/'
IsAbsolute(p) == Len(p) > 0 /\ p[1] = Slash

\* path.replace(/^\/*/, '')
RECURSIVE StripLeadingSlashes(_)
StripLeadingSlashes(p) ==
  IF IsAbsolute(p) THEN StripLeadingSlashes(Tail(p)) ELSE p

\* path.dirname
Dirname(f) ==
  LET k == LastSlash(f)
  IN  IF k = 0 THEN <<".">>
      ELSE IF k = 1 THEN <<Slash>>
      ELSE SubSeq(f, 1, k - 1)

\* path.extname(name) is non-empty
HasExt(name) == Len(name) > 0 /\ name[Len(name)] = Ext

\* the process's working directory, for path.resolve of a relative base
Cwd == <<Slash, "cwd">>

\* path.resolve(base, name), name relative and free of "." and ".." segments
PathResolve(base, name) ==
  LET b == IF IsAbsolute(base) THEN base
           ELSE IF base = <<".">> THEN Cwd
           ELSE Cwd \o <<Slash>> \o base
  IN  IF IsAbsolute(name) THEN name
      ELSE IF b = <<Slash>> THEN b \o name
      ELSE b \o <<Slash>> \o name

\* exports.resolveInclude(name, filename, isDir)
resolveInclude(name, filename, isDir) ==
  LET includePath == PathResolve(IF isDir THEN filename ELSE Dirname(filename), name)
  IN  IF ~HasExt(name) THEN includePath \o <<Ext>> ELSE includePath

\* getIncludePath without the check of line 122
getIncludePathUnchecked(path, filename, root) ==
  IF IsAbsolute(path)
    THEN [ok |-> TRUE,
          val |-> resolveInclude(StripLeadingSlashes(path),
                                 IF root = Undef THEN <<Slash>> ELSE root, TRUE)]
    ELSE [ok |-> TRUE, val |-> resolveInclude(path, filename, FALSE)]

\* getIncludePath(path, filename, root): a record, ok = FALSE when it throws
getIncludePath(path, filename, root) ==
  IF IsAbsolute(path)
    THEN [ok |-> TRUE,
          val |-> resolveInclude(StripLeadingSlashes(path),
                                 IF root = Undef THEN <<Slash>> ELSE root, TRUE)]
  ELSE IF filename = Undef
    THEN [ok |-> FALSE, val |-> Undef]
  ELSE [ok |-> TRUE, val |-> resolveInclude(path, filename, FALSE)]

-----------------------------------------------------------------------------
(* rethrow(err, str, filename, lineno): the context window.                *)

MaxLines == 10

\* lines.slice(start, end) for 0-based start, end: elements start+1 .. end
Slice(lines, start, end) ==
  IF end <= start THEN <<>> ELSE SubSeq(lines, start + 1, end)

\* the context: one entry per line of the window, in order
rethrow(lines, lineno) ==
  LET start == Max(lineno - 3, 0)
      end == Min(Len(lines), lineno + 3)
      win == Slice(lines, start, end)
  IN  [i \in 1..Len(win) |->
         LET curr == (i - 1) + start + 1
         IN  [mark |-> (curr = lineno), num |-> curr, line |-> win[i]]]

\* a source text of n lines; line i has content i
TextOfLines(n) == [i \in 1..n |-> i]

RethrowInputs ==
  {r \in [fn : {"rethrow"}, n : 1..MaxLines, lineno : 1..MaxLines] : r.lineno <= r.n}

-----------------------------------------------------------------------------
(* generateSource: normalisation of a tag's content (line 580) and the     *)
(* emission switch (lines 557-601).  A content is a sequence of tokens:    *)
(* " " is white space, "undefined" and "null" are those words, "x" is any  *)
(* other identifier text.                                                  *)

MaxContentLen == 3

ContentTokens == {" ", "undefined", "null", "x"}

Prefixes == {"escaped", "raw", "scriptlet", "whitespaceSlurpingStart", "comment"}

EmptyStringLiteral == <<"''">>

RECURSIVE SkipSpaces(_)
SkipSpaces(c) == IF Len(c) > 0 /\ c[1] = " " THEN SkipSpaces(Tail(c)) ELSE c

\* /^\s*(undefined)|(null)\s*/.test(content): the alternation binds loosest,
\* so this is  ^\s*undefined  OR  null\s*  anywhere
NormalizeRegexTest(content) ==
  \/ LET r == SkipSpaces(content) IN Len(r) > 0 /\ r[1] = "undefined"
  \/ \E i \in 1..Len(content) : content[i] = "null"

NormalizeContent(content) ==
  IF NormalizeRegexTest(content) THEN EmptyStringLiteral ELSE content

\* the callback of template.replace for one tag: what it splices into the program
EmitTag(prefix, content) ==
  IF prefix = "comment" THEN [form |-> "nothing", content |-> <<>>]
  ELSE LET c == NormalizeContent(content)
       IN  CASE prefix = "escaped" -> [form |-> "escape", content |-> c]
             [] prefix = "raw" -> [form |-> "raw", content |-> c]
             [] OTHER -> [form |-> "statement", content |-> c]

RECURSIVE SeqsUpTo(_, _)
SeqsUpTo(S, n) ==
  IF n = 0 THEN {<<>>}
  ELSE LET shorter == SeqsUpTo(S, n - 1)
       IN  shorter \cup {Append(s, x) : s \in {t \in shorter : Len(t) = n - 1}, x \in S}

NormInputs ==
  {[fn |-> "emit", prefix |-> p, content |-> c] :
     p \in Prefixes, c \in SeqsUpTo(ContentTokens, MaxContentLen)}

-----------------------------------------------------------------------------
(* The files readFile can read, the top-level inputs of exports.compile    *)
(* and the option objects.  A tag is [k, p]: "stmt" is <% include p %>,    *)
(* "call" is a tag whose code is include("p"), "throw" a tag whose code    *)
(* raises when run, "bad" a tag whose code does not parse.                 *)

\* top-level calls (exports.compile, or a call of a function it returned) per run
MaxCalls == 3

\* the depth of the JavaScript call stack at which the engine raises
\* RangeError: Maximum call stack size exceeded
MaxStack == 10

Tag(k, p) == [k |-> k, p |-> p]

FileA == <<Slash, "v", Slash, "a", Ext>>

FileQ == <<Slash, "v", Slash, "q", Ext>>

FileSubP == <<Slash, "v", Slash, "sub", Slash, "p", Ext>>

FileSubQ == <<Slash, "v", Slash, "sub", Slash, "q", Ext>>

FileBad == <<Slash, "v", Slash, "bad", Ext>>

FileC == <<Slash, "v", Slash, "c", Ext>>

FileE == <<Slash, "v", Slash, "e", Ext>>

RootV == <<Slash, "v">>

\* what fs.readFileSync finds: filename -> template text
Files ==
  (FileQ :> <<Tag("throw", <<>>)>>) @@
  (FileSubP :> <<Tag("call", <<"q">>)>>) @@
  (FileSubQ :> << >>) @@
  (FileBad :> <<Tag("bad", <<>>)>>) @@
  (FileC :> <<Tag("stmt", <<"c">>)>>) @@
  (FileE :> <<Tag("call", <<"e">>)>>)

\* opts.pages of the callers that use a page map: path -> template text
Pages ==
  (<<"q">> :> <<Tag("throw", <<>>)>>) @@
  (<<"q", Ext>> :> <<Tag("throw", <<>>)>>) @@
  (<<"sub", Slash, "p">> :> <<Tag("call", <<"q">>)>>)

\* the template texts callers pass to exports.compile
TextX == <<Tag("stmt", <<"sub", Slash, "p">>), Tag("call", <<"q">>)>>

TextY == <<Tag("stmt", <<"q", Ext>>), Tag("stmt", <<"q">>)>>

TextZ == <<Tag("call", <<Slash, "sub", Slash, "p">>), Tag("call", <<Slash, "bad">>)>>

TextW == <<Tag("call", <<"sub", Slash, "p">>), Tag("call", <<"q">>)>>

TextC == <<Tag("stmt", <<"c">>)>>

\* exports.renderFile passes null as the template: compile reads opts.filename
NullText == <<Tag("null", <<>>)>>

\* the caller's options other than filename; localsName stands for the options
\* that shape the assembled program (delimiter, localsName, _with, strict, ...)
BaseOpts ==
  [client |-> FALSE, usePages |-> FALSE, precompile |-> << >>,
   loadOnlyOnce |-> FALSE, cache |-> FALSE, root |-> Undef, localsName |-> "locals"]

Call(text, filename, o) == [text |-> text, filename |-> filename, o |-> o]

\* the calls of exports.compile(template, opts) the callers make
CompileCalls ==
  { Call(TextX, FileA, BaseOpts),
    Call(TextX, Undef, BaseOpts),
    Call(TextX, Undef, [BaseOpts EXCEPT !.usePages = TRUE]),
    Call(TextX, FileA, [BaseOpts EXCEPT !.client = TRUE]),
    Call(TextX, FileA, [BaseOpts EXCEPT !.precompile = <<<<"sub", Slash, "p">>>>]),
    Call(TextY, FileA, [BaseOpts EXCEPT !.client = TRUE]),
    Call(TextY, FileA, [BaseOpts EXCEPT !.loadOnlyOnce = TRUE]),
    Call(TextY, FileA, [BaseOpts EXCEPT !.cache = TRUE]),
    Call(TextY, FileA, [BaseOpts EXCEPT !.cache = TRUE, !.loadOnlyOnce = TRUE,
                                        !.localsName = "data"]),
    Call(NullText, FileQ, [BaseOpts EXCEPT !.cache = TRUE]),
    Call(NullText, FileQ, [BaseOpts EXCEPT !.cache = TRUE, !.usePages = TRUE]),
    Call(TextZ, Undef, [BaseOpts EXCEPT !.root = RootV]),
    Call(TextZ, Undef, BaseOpts),
    Call(TextW, FileA, BaseOpts),
    Call(TextW, FileA, [BaseOpts EXCEPT !.client = TRUE]),
    Call(TextC, FileA, [BaseOpts EXCEPT !.cache = TRUE, !.loadOnlyOnce = TRUE]),
    Call(NullText, FileE, [BaseOpts EXCEPT !.client = TRUE]) }

\* new Template(text, opts): this.opts, this.pathStack, this.dependencies
Template(text, filename, o) ==
  [opts |-> [client |-> o.client, usePages |-> o.usePages, precompile |-> o.precompile,
             loadOnlyOnce |-> o.loadOnlyOnce, cache |-> o.cache, root |-> o.root,
             localsName |-> o.localsName, filename |-> filename],
   templateText |-> text,
   pathStack |-> <<filename>>,
   dependencies |-> << >>]

-----------------------------------------------------------------------------
(* Values, frames and small helpers.                                       *)

\* a JavaScript value passed as an argument: v names it, ref says whose
Val(v, ref) == [v |-> v, ref |-> ref]

Undefined == Val("undefined", 0)

\* the i-th actual argument of a call, undefined when fewer were passed
Arg(args, i) == IF i <= Len(args) THEN args[i] ELSE Undefined

Last(s) == s[Len(s)]

Front(s) == SubSeq(s, 1, Len(s) - 1)

Has(m, key) == key \in DOMAIN m

Put(m, key, val) == [x \in DOMAIN m \cup {key} |-> IF x = key THEN val ELSE m[x]]

Frame0 ==
  [k |-> None, tid |-> 0, fn |-> 0, phase |-> None, how |-> None, path |-> << >>,
   ps0 |-> << >>, filename |-> << >>, key |-> << >>, hadDep |-> FALSE,
   file |-> << >>, tags |-> << >>, ops |-> << >>, bad |-> FALSE, i |-> 0,
   inc |-> Undefined, rth |-> Undefined, site |-> None, owner |-> << >>]

\* Template.prototype.compile in progress
CompileFrame(tid) == [Frame0 EXCEPT !.k = "compile", !.tid = tid, !.phase = "gen", !.i = 1]

\* Template.prototype.generateSource(template, filename) in progress
GenFrame(tid, text, filename) ==
  [Frame0 EXCEPT !.k = "gen", !.tid = tid, !.tags = text, !.file = filename]

\* one include resolution in progress: includeSource, a bare includeFile call,
\* or the wrapper's include closure, each around Template.prototype.includeFile
IncFrame(tid, how, path, ps0, filename, key, hadDep, fn, phase) ==
  [Frame0 EXCEPT !.k = "inc", !.tid = tid, !.how = how, !.path = path, !.ps0 = ps0,
                 !.filename = filename, !.key = key, !.hadDep = hadDep, !.fn = fn,
                 !.phase = phase]

\* the frame of a program's body running: ops are the statements still to run,
\* inc and rth are what its parameters `include` and `rethrow` are bound to
RunFrame(fn, ops, inc, rth, site) ==
  [Frame0 EXCEPT !.k = "run", !.fn = fn, !.ops = ops, !.inc = inc, !.rth = rth,
                 !.site = site]

\* a function object: kind "program" is what sourceToFunc builds for an include,
\* "wrapper" is returnedFn (ops are those of its renderFn), "client" is the
\* renderFn a client compile returns, with its embedded __dependencies
Func(kind, tid, file, ops, localsName, deps, root) ==
  [kind |-> kind, tid |-> tid, file |-> file, ops |-> ops, localsName |-> localsName,
   deps |-> deps, root |-> root]

\* a statement of an assembled program: a call of include(p) written in the
\* text of template `owner`, or a statement that raises
IncludeOp(p, owner) == [k |-> "include", p |-> p, owner |-> owner]

ThrowOp == [k |-> "throw", p |-> << >>, owner |-> << >>]

-----------------------------------------------------------------------------
(* Template.prototype.includeFile, lines 612-628: everything up to the     *)
(* call of generateSource.  status says where it went:                     *)
(*   "configError"  getIncludePath threw (line 123), nothing pushed        *)
(*   "typeError"    parentFilename.substr on undefined (line 616)          *)
(*   "found"        func came from dependencies or from the cache          *)
(*   "fetchError"   readFile threw / the page is undefined, after the push *)
(*   "miss"         the text was fetched and has to be assembled           *)

\* line 616: the key of this.dependencies and of __dependencies in client mode
clientFilename(path, parentFilename, root) ==
  IF IsAbsolute(path) THEN root \o path
  ELSE SubSeq(parentFilename, 1, LastSlash(parentFilename)) \o path

\* lines 617-628, given the results of lines 614-616
includeFileLookup(T, C, tid, parentFilename, inc, clientThrows, key) ==
  LET opts == T[tid].opts
      hadDep == Has(T[tid].dependencies, key)
      cached == ~hadDep /\ opts.cache /\ ~opts.client /\ Has(C, inc.val)
      func == IF hadDep THEN T[tid].dependencies[key]
              ELSE IF cached THEN C[inc.val] ELSE 0
      source == IF opts.usePages THEN Pages ELSE Files
      status == IF ~inc.ok THEN "configError"
                ELSE IF clientThrows THEN "typeError"
                ELSE IF func # 0 THEN "found"
                ELSE IF ~Has(source, inc.val) THEN "fetchError"
                ELSE "miss"
  IN  [status |-> status, filename |-> inc.val, key |-> key, hadDep |-> hadDep,
       cached |-> cached, func |-> func,
       text |-> IF status = "miss" THEN source[inc.val] ELSE << >>,
       parent |-> parentFilename]

\* line 616, given the results of lines 614-615
includeFileKey(T, C, tid, path, parentFilename, inc) ==
  includeFileLookup(T, C, tid, parentFilename, inc,
    T[tid].opts.client /\ ~IsAbsolute(path) /\ parentFilename = Undef,
    IF T[tid].opts.client /\ ~(~IsAbsolute(path) /\ parentFilename = Undef)
      THEN clientFilename(path, parentFilename, T[tid].opts.root)
      ELSE inc.val)

includeFileHead(T, C, tid, path) ==
  includeFileKey(T, C, tid, path, Last(T[tid].pathStack),
    IF T[tid].opts.usePages THEN [ok |-> TRUE, val |-> path]
    ELSE getIncludePath(path, Last(T[tid].pathStack), T[tid].opts.root))

\* lines 632-634: this.dependencies[...] = func
StoreDependency(T, tid, key, hadDep, fn) ==
  IF ~hadDep /\ (T[tid].opts.loadOnlyOnce \/ T[tid].opts.client)
    THEN [T EXCEPT ![tid].dependencies = Put(@, key, fn)]
    ELSE T

\* lines 635-637: exports.cache.set(filename, func)
StoreCache(T, C, tid, filename, cached, fn) ==
  IF ~cached /\ T[tid].opts.cache /\ ~T[tid].opts.client
    THEN Put(C, filename, fn)
    ELSE C

\* line 621: pathStack.push(filename)
PushPath(T, tid, filename) == [T EXCEPT ![tid].pathStack = Append(@, filename)]

\* lines 425 and 644: pathStack.pop()
PopPath(T, tid) ==
  [T EXCEPT ![tid].pathStack = IF Len(@) = 0 THEN @ ELSE Front(@)]

\* includeSource, lines 642-643: the body of the function, spliced into the
\* including program.  The body of a returnedFn refers to the variables of the
\* closure it was made in (renderFn, opts, utils), which the including
\* program does not have: running it raises a ReferenceError.
InlineOps(f) == IF f.kind = "wrapper" THEN <<ThrowOp>> ELSE f.ops

\* the record of one finished include resolution
Done(tid, how, ok, before, after, fn) ==
  [tid |-> tid, how |-> how, ok |-> ok, before |-> before, after |-> after, fn |-> fn]

\* an exception unwinds the whole call stack (no handler swallows it: the
\* catch blocks of compile and of the assembled programs rethrow); every
\* include resolution in progress finishes by raising
RaisedIncludes(stk, T) ==
  {Done(stk[j].tid, stk[j].how, FALSE, stk[j].ps0, T[stk[j].tid].pathStack, stk[j].fn) :
     j \in {i \in 1..Len(stk) : stk[i].k = "inc"}}

ErrorResult(err) == [kind |-> "error", err |-> err, fn |-> 0]

ValueResult(fn) == [kind |-> "value", err |-> None, fn |-> fn]

\* calling function fn with the actual arguments args from call site `site`.
\* A program binds its parameters (localsName, escape, include, rethrow) by
\* position (sourceToFunc, line 608); a returnedFn takes data alone and calls
\* its renderFn with its own closure (line 428); a client renderFn declares
\* its own include (line 462) and defaults rethrow (line 465).
InvokeFrame(F, fn, args, site) ==
  LET f == F[fn]
  IN  CASE f.kind = "program" -> RunFrame(fn, f.ops, Arg(args, 3), Arg(args, 4), site)
        [] f.kind = "wrapper" ->
             RunFrame(fn, f.ops, Val("closure", f.tid), Val("rethrowFn", 0), "wrapper")
        [] OTHER ->
             RunFrame(fn, f.ops, Val("clientInclude", fn), Val("rethrowFn", 0), site)

\* the arguments of line 424: (d, escape, include, rethrow)
ClosureArgs(tid) ==
  <<Val("data", 0), Val("escapeFn", 0), Val("closure", tid), Val("rethrowFn", 0)>>

\* the arguments of line 661: (d, escape, rethrow)
ClientIncludeArgs == <<Val("data", 0), Val("escapeFn", 0), Val("rethrowFn", 0)>>

\* what the caller of includeFile does with the function it got:
\*   "stmt"  includeSource (lines 642-645): splice the body, pathStack.pop()
\*   "call"  generateSource line 577: nothing
\*   "pre"   compile line 377: nothing
\*   "rt"    the include closure (line 424): call it; the pop of line 425
\*           comes when that call returns
IncludeTail(base, tid, how, path, ps0, fn, T, F) ==
  CASE how = "stmt" ->
         LET T2 == PopPath(T, tid)
             g == Last(base)
         IN  [stack |-> Append(Front(base), [g EXCEPT !.ops = @ \o InlineOps(F[fn])]),
              templates |-> T2,
              incDone |-> {Done(tid, how, TRUE, ps0, T2[tid].pathStack, fn)}]
    [] how \in {"call", "pre"} ->
         [stack |-> base, templates |-> T,
          incDone |-> {Done(tid, how, TRUE, ps0, T[tid].pathStack, fn)}]
    [] OTHER ->
         [stack |-> base \o <<IncFrame(tid, how, path, ps0, << >>, << >>, FALSE, fn, "run"),
                              InvokeFrame(F, fn, ClosureArgs(tid), "closure")>>,
          templates |-> T, incDone |-> {}]

Resolution(tid, path, how, owner, h, outcome, fetched, same) ==
  [tid |-> tid, path |-> path, how |-> how, owner |-> owner, parent |-> h.parent,
   rel |-> ~IsAbsolute(path), usePages |-> templates[tid].opts.usePages,
   root |-> templates[tid].opts.root, outcome |-> outcome, filename |-> h.filename,
   fetched |-> fetched, same |-> same]

\* the call stack stk has no room for n more frames
StackExhausted(stk, n) == Len(stk) + n > MaxStack

\* includeFile(path) of Template tid, called from the frame on top of base;
\* h is what lines 612-628 computed
IncludeFileCall(base, tid, path, how, owner, h) ==
  LET ps0 == templates[tid].pathStack
      T1 == PushPath(templates, tid, h.filename)
  IN  CASE StackExhausted(base, 2)
             /\ (h.status = "miss" \/ (h.status = "found" /\ how = "rt")) ->
             /\ stack' = << >>
             /\ result' = ErrorResult("rangeError")
             /\ templates' = T1
             /\ incDone' = RaisedIncludes(base, T1)
                             \cup {Done(tid, how, FALSE, ps0, T1[tid].pathStack, 0)}
             /\ UNCHANGED <<cache, funcs, asmCount>>
             /\ lastRes' = Resolution(tid, path, how, owner, h, "ok",
                                      h.status = "miss",
                                      templates' = templates /\ cache' = cache)
        [] h.status \in {"configError", "typeError"} ->
             /\ stack' = << >>
             /\ result' = ErrorResult(h.status)
             /\ incDone' = RaisedIncludes(base, templates)
                             \cup {Done(tid, how, FALSE, ps0, ps0, 0)}
             /\ UNCHANGED <<cache, templates, funcs, asmCount>>
             /\ lastRes' = Resolution(tid, path, how, owner, h, h.status, FALSE,
                                      templates' = templates /\ cache' = cache)
        [] h.status = "fetchError" ->
             /\ stack' = << >>
             /\ result' = ErrorResult("fetchError")
             /\ templates' = T1
             /\ incDone' = RaisedIncludes(base, T1)
                             \cup {Done(tid, how, FALSE, ps0, T1[tid].pathStack, 0)}
             /\ UNCHANGED <<cache, funcs, asmCount>>
             /\ lastRes' = Resolution(tid, path, how, owner, h, "ok", TRUE,
                                      templates' = templates /\ cache' = cache)
        [] h.status = "found" ->
             LET T2 == StoreDependency(T1, tid, h.key, h.hadDep, h.func)
                 C2 == StoreCache(T1, cache, tid, h.filename, h.cached, h.func)
                 t == IncludeTail(base, tid, how, path, ps0, h.func, T2, funcs)
             IN  /\ stack' = t.stack
                 /\ templates' = t.templates
                 /\ incDone' = t.incDone
                 /\ cache' = C2
                 /\ UNCHANGED <<result, funcs, asmCount>>
                 /\ lastRes' = Resolution(tid, path, how, owner, h, "ok", FALSE,
                                          templates' = templates /\ cache' = cache)
        [] OTHER ->
             /\ stack' = base \o <<IncFrame(tid, how, path, ps0, h.filename, h.key,
                                            h.hadDep, 0, "gen"),
                                   GenFrame(tid, h.text, h.filename)>>
             /\ templates' = T1
             /\ incDone' = {}
             /\ UNCHANGED <<cache, result, funcs, asmCount>>
             /\ lastRes' = Resolution(tid, path, how, owner, h, "ok", TRUE,
                                      templates' = templates /\ cache' = cache)

\* a call of includeFile(path) by Template tid, from the frame on top of base
EnterInclude(base, tid, path, how, owner) ==
  IncludeFileCall(base, tid, path, how, owner,
                  includeFileHead(templates, cache, tid, path))

Bump(m, key) == Put(m, key, IF Has(m, key) THEN m[key] + 1 ELSE 1)

Count(m, key) == IF Has(m, key) THEN m[key] ELSE 0

-----------------------------------------------------------------------------
(* The state after the module is loaded.                                   *)

NoResolution ==
  [tid |-> 0, path |-> << >>, how |-> None, owner |-> << >>, parent |-> << >>,
   rel |-> FALSE, usePages |-> FALSE, root |-> Undef, outcome |-> None,
   filename |-> << >>, fetched |-> FALSE, same |-> TRUE]

NoCall ==
  [filename |-> << >>, cache |-> FALSE, usePages |-> FALSE, hit |-> FALSE,
   had |-> FALSE, held |-> 0, fn |-> 0, stored |-> 0, done |-> FALSE]

ProgInit ==
  /\ cache = << >>
  /\ templates = << >>
  /\ funcs = << >>
  /\ stack = << >>
  /\ result = [kind |-> None, err |-> None, fn |-> 0]
  /\ returned = {}
  /\ incDone = {}
  /\ lastRes = NoResolution
  /\ asmCount = << >>
  /\ topAsm = << >>
  /\ lastCall = NoCall
  /\ calls = 0

NoOutput == [done |-> FALSE, val |-> << >>]

Output(v) == [done |-> TRUE, val |-> v]

NoInput == [fn |-> None]

Init == ProgInit /\ pin = NoInput /\ pout = NoOutput

-----------------------------------------------------------------------------
(* exports.compile, exports.clearCache and Template.prototype.compile.     *)

Idle == stack = << >>

Top == Last(stack)

\* exports.compile without its cache lookup
CacheLookupSkipped(o, filename) == FALSE

\* line 227: the condition under which exports.compile consults the cache
CacheLookup(o, filename) == ~o.usePages /\ o.cache /\ filename # Undef

Raise(err, stk, T) ==
  /\ stack' = << >>
  /\ result' = ErrorResult(err)
  /\ incDone' = RaisedIncludes(stk, T)

\* exports.compile, lines 227-231: the function is in the cache
CompileCached ==
  /\ Idle
  /\ calls < MaxCalls
  /\ calls' = calls + 1
  /\ \E in \in CompileCalls :
       LET filename == in.filename
           o == in.o
       IN  /\ CacheLookup(o, filename)
           /\ Has(cache, filename)
           /\ result' = ValueResult(cache[filename])
           /\ returned' = returned \cup {cache[filename]}
           /\ lastCall' = [filename |-> filename, cache |-> TRUE, usePages |-> FALSE,
                           hit |-> TRUE, had |-> TRUE, held |-> cache[filename],
                           fn |-> cache[filename], stored |-> cache[filename],
                           done |-> TRUE]
  /\ incDone' = {}
  /\ UNCHANGED <<cache, templates, funcs, stack, lastRes, asmCount, topAsm,
                 pin, pout>>

\* exports.compile, lines 227-236: a miss; readFile for a null template, then
\* new Template(template, opts).compile() up to its call of generateSource
CompileFresh ==
  /\ Idle
  /\ calls < MaxCalls
  /\ calls' = calls + 1
  /\ \E in \in CompileCalls :
       LET filename == in.filename
           o == in.o
           readable == in.text # NullText \/ Has(Files, filename)
           text == IF in.text = NullText THEN Files[filename] ELSE in.text
           tid == Len(templates) + 1
       IN  /\ ~(CacheLookup(o, filename) /\ Has(cache, filename))
           /\ lastCall' = [filename |-> filename, cache |-> o.cache,
                           usePages |-> o.usePages, hit |-> FALSE,
                           had |-> Has(cache, filename),
                           held |-> IF Has(cache, filename) THEN cache[filename] ELSE 0,
                           fn |-> 0, stored |-> 0, done |-> FALSE]
           /\ IF readable
                THEN /\ templates' = Append(templates, Template(text, filename, o))
                     /\ stack' = <<CompileFrame(tid), GenFrame(tid, text, filename)>>
                     /\ result' = [kind |-> None, err |-> None, fn |-> 0]
                ELSE /\ result' = ErrorResult("fetchError")
                     /\ UNCHANGED <<templates, stack>>
  /\ incDone' = {}
  /\ UNCHANGED <<cache, funcs, returned, lastRes, asmCount, topAsm, pin, pout>>

\* exports.clearCache
ClearCache ==
  /\ Idle
  /\ cache # << >>
  /\ cache' = << >>
  /\ topAsm' = << >>
  /\ incDone' = {}
  /\ UNCHANGED <<templates, funcs, stack, result, returned, lastRes, asmCount, lastCall,
                 calls, pin, pout>>

\* generateSource, lines 561-601, for a tag that is no include to resolve now:
\* its code goes into the program
GenPlain ==
  /\ ~Idle
  /\ Top.k = "gen"
  /\ Top.tags # << >>
  /\ LET g == Top
         tag == Head(g.tags)
     IN  /\ \/ tag.k \in {"throw", "bad"}
            \/ tag.k = "call" /\ ~templates[g.tid].opts.client
         /\ stack' = Append(Front(stack),
              [g EXCEPT !.tags = Tail(@),
                        !.ops = CASE tag.k = "throw" -> Append(@, ThrowOp)
                                  [] tag.k = "call" -> Append(@, IncludeOp(tag.p, g.file))
                                  [] OTHER -> @,
                        !.bad = @ \/ tag.k = "bad"])
  /\ incDone' = {}
  /\ UNCHANGED <<cache, templates, funcs, result, returned, lastRes, asmCount, topAsm,
                 lastCall, calls, pin, pout>>

\* generateSource, lines 564-572: the statement form, includeSource(path)
GenIncludeDirective ==
  /\ ~Idle
  /\ Top.k = "gen"
  /\ Top.tags # << >>
  /\ Head(Top.tags).k = "stmt"
  /\ LET g == Top
         tag == Head(g.tags)
         base == Append(Front(stack), [g EXCEPT !.tags = Tail(@)])
     IN  EnterInclude(base, g.tid, tag.p, "stmt", g.file)
  /\ UNCHANGED <<returned, topAsm, lastCall, calls, pin, pout>>

\* generateSource, lines 573-579: the call form in a client compile is
\* registered with includeFile(path); its code goes into the program
GenIncludeFunc ==
  /\ ~Idle
  /\ Top.k = "gen"
  /\ Top.tags # << >>
  /\ Head(Top.tags).k = "call"
  /\ templates[Top.tid].opts.client
  /\ LET g == Top
         tag == Head(g.tags)
         base == Append(Front(stack),
                   [g EXCEPT !.tags = Tail(@),
                             !.ops = Append(@, IncludeOp(tag.p, g.file))])
     IN  EnterInclude(base, g.tid, tag.p, "call", g.file)
  /\ UNCHANGED <<returned, topAsm, lastCall, calls, pin, pout>>

\* generateSource returns to includeFile, lines 629-638: sourceToFunc, the
\* stores, and the return to includeFile's caller
IncludeFileReturn ==
  /\ Len(stack) >= 3
  /\ Top.k = "gen"
  /\ Top.tags = << >>
  /\ stack[Len(stack) - 1].k = "inc"
  /\ LET g == Top
         inc == stack[Len(stack) - 1]
         base == SubSeq(stack, 1, Len(stack) - 2)
         tid == inc.tid
         fn == Len(funcs) + 1
         F == Append(funcs, Func("program", tid, inc.filename, g.ops,
                                 templates[tid].opts.localsName, << >>, Undef))
         T2 == StoreDependency(templates, tid, inc.key, inc.hadDep, fn)
         C2 == StoreCache(templates, cache, tid, inc.filename, FALSE, fn)
         t == IncludeTail(base, tid, inc.how, inc.path, inc.ps0, fn, T2, F)
     IN  IF g.bad
           THEN /\ Raise("syntaxError", stack, templates)
                /\ UNCHANGED <<cache, templates, funcs, asmCount>>
           ELSE /\ funcs' = F
                /\ cache' = C2
                /\ stack' = t.stack
                /\ templates' = t.templates
                /\ incDone' = t.incDone
                /\ asmCount' = Bump(asmCount, <<tid, inc.filename>>)
                /\ UNCHANGED result
  /\ UNCHANGED <<returned, lastRes, topAsm, lastCall, calls, pin, pout>>

\* generateSource returns to Template.prototype.compile, line 373
GenerateSourceReturn ==
  /\ Len(stack) = 2
  /\ Top.k = "gen"
  /\ Top.tags = << >>
  /\ stack[1].k = "compile"
  /\ stack' = <<[stack[1] EXCEPT !.phase = "pre", !.ops = Top.ops, !.bad = Top.bad]>>
  /\ incDone' = {}
  /\ UNCHANGED <<cache, templates, funcs, result, returned, lastRes, asmCount, topAsm,
                 lastCall, calls, pin, pout>>

\* Template.prototype.compile, lines 375-379: one entry of opts.precompile
CompilePrecompile ==
  /\ ~Idle
  /\ Top.k = "compile"
  /\ Top.phase = "pre"
  /\ Top.i <= Len(templates[Top.tid].opts.precompile)
  /\ LET c == Top
         base == <<[c EXCEPT !.i = @ + 1]>>
     IN  EnterInclude(base, c.tid, templates[c.tid].opts.precompile[c.i], "pre",
                      templates[c.tid].opts.filename)
  /\ UNCHANGED <<returned, topAsm, lastCall, calls, pin, pout>>

\* Template.prototype.compile, lines 381-431, and exports.compile, lines 237-240
CompileFinish ==
  /\ ~Idle
  /\ Top.k = "compile"
  /\ Top.phase = "pre"
  /\ Top.i > Len(templates[Top.tid].opts.precompile)
  /\ LET c == Top
         opts == templates[c.tid].opts
         fn == Len(funcs) + 1
         f == IF opts.client
                THEN Func("client", c.tid, opts.filename, c.ops, opts.localsName,
                          templates[c.tid].dependencies, opts.root)
                ELSE Func("wrapper", c.tid, opts.filename, c.ops, opts.localsName,
                          << >>, Undef)
         C2 == IF opts.cache THEN Put(cache, opts.filename, fn) ELSE cache
     IN  IF c.bad
           THEN /\ Raise("syntaxError", stack, templates)
                /\ UNCHANGED <<cache, funcs, returned, topAsm, lastCall>>
           ELSE /\ funcs' = Append(funcs, f)
                /\ cache' = C2
                /\ stack' = << >>
                /\ result' = ValueResult(fn)
                /\ returned' = returned \cup {fn}
                /\ incDone' = {}
                /\ topAsm' = IF opts.cache
                               THEN Bump(topAsm, <<opts.filename, opts.usePages>>)
                               ELSE topAsm
                /\ lastCall' = [lastCall EXCEPT !.fn = fn, !.done = TRUE,
                                  !.stored = IF Has(C2, opts.filename)
                                               THEN C2[opts.filename] ELSE 0]
  /\ UNCHANGED <<templates, lastRes, asmCount, calls, pin, pout>>

-----------------------------------------------------------------------------
(* Running what compile returned.                                          *)

\* a caller invokes a function exports.compile returned, with a data object
Render ==
  /\ Idle
  /\ calls < MaxCalls
  /\ \E fn \in returned :
       stack' = <<InvokeFrame(funcs, fn, <<Val("data", 0)>>, "external")>>
  /\ calls' = calls + 1
  /\ result' = [kind |-> None, err |-> None, fn |-> 0]
  /\ incDone' = {}
  /\ UNCHANGED <<cache, templates, funcs, returned, lastRes, asmCount, topAsm, lastCall,
                 pin, pout>>

Running == ~Idle /\ Top.k = "run" /\ Top.ops # << >>

\* the stack once the running program has moved past its current statement
Advanced == Append(Front(stack), [Top EXCEPT !.ops = Tail(@)])

\* a statement of the program raises; the catch of the program (line 471) hands
\* the error to rethrow, which throws it on
RunThrow ==
  /\ Running
  /\ Head(Top.ops).k = "throw"
  /\ Raise("thrown", stack, templates)
  /\ UNCHANGED <<cache, templates, funcs, returned, lastRes, asmCount, topAsm, lastCall,
                 calls, pin, pout>>

\* include(path) where include is the closure of returnedFn, lines 419-424
RunInclude ==
  /\ Running
  /\ Head(Top.ops).k = "include"
  /\ Top.inc.v = "closure"
  /\ EnterInclude(Advanced, Top.inc.ref, Head(Top.ops).p, "rt", Head(Top.ops).owner)
  /\ UNCHANGED <<returned, topAsm, lastCall, calls, pin, pout>>

\* line 650: the key the include function of a client program looks up
clientIncludeKey(path, filename, root) ==
  IF IsAbsolute(path) THEN root \o path
  ELSE SubSeq(filename, 1, LastSlash(filename)) \o path

\* include(path) where include is the function of clientIncludeString,
\* lines 648-662, in the client program cfn
RunClientInclude ==
  /\ Running
  /\ Head(Top.ops).k = "include"
  /\ Top.inc.v = "clientInclude"
  /\ LET cfn == funcs[Top.inc.ref]
         path == Head(Top.ops).p
         key == clientIncludeKey(path, cfn.file, cfn.root)
     IN  IF ~IsAbsolute(path) /\ cfn.file = Undef
           THEN Raise("typeError", stack, templates)
         ELSE IF ~Has(cfn.deps, key)
           THEN Raise("can not find template", stack, templates)
         ELSE /\ stack' = Append(Advanced,
                            InvokeFrame(funcs, cfn.deps[key], ClientIncludeArgs,
                                        "clientInclude"))
              /\ incDone' = {}
              /\ UNCHANGED result
  /\ UNCHANGED <<cache, templates, funcs, returned, lastRes, asmCount, topAsm, lastCall,
                 calls, pin, pout>>

\* include(path) where the parameter include is bound to something else:
\* undefined is not callable, and rethrow(path) fails on str.split (line 144)
RunIncludeUnbound ==
  /\ Running
  /\ Head(Top.ops).k = "include"
  /\ Top.inc.v \notin {"closure", "clientInclude"}
  /\ Raise("typeError", stack, templates)
  /\ UNCHANGED <<cache, templates, funcs, returned, lastRes, asmCount, topAsm, lastCall,
                 calls, pin, pout>>

\* the included program returns to the include closure, lines 424-426:
\* context.pathStack.pop(), and the closure returns
IncludeReturn ==
  /\ Len(stack) >= 2
  /\ Top.k = "run"
  /\ Top.ops = << >>
  /\ stack[Len(stack) - 1].k = "inc"
  /\ LET inc == stack[Len(stack) - 1]
         T2 == PopPath(templates, inc.tid)
     IN  /\ templates' = T2
         /\ incDone' = {Done(inc.tid, inc.how, TRUE, inc.ps0, T2[inc.tid].pathStack,
                             inc.fn)}
  /\ stack' = SubSeq(stack, 1, Len(stack) - 2)
  /\ UNCHANGED <<cache, funcs, result, returned, lastRes, asmCount, topAsm, lastCall,
                 calls, pin, pout>>

\* a program returns to the include function of a client program (line 661)
\* or to the caller of the function compile returned
RunReturn ==
  /\ ~Idle
  /\ Top.k = "run"
  /\ Top.ops = << >>
  /\ Len(stack) >= 2 => stack[Len(stack) - 1].k = "run"
  /\ stack' = Front(stack)
  /\ result' = IF Len(stack) = 1 THEN [kind |-> "rendered", err |-> None, fn |-> Top.fn]
               ELSE result
  /\ incDone' = {}
  /\ UNCHANGED <<cache, templates, funcs, returned, lastRes, asmCount, topAsm, lastCall,
                 calls, pin, pout>>

Next ==
  \/ CompileCached
  \/ CompileFresh
  \/ ClearCache
  \/ GenPlain
  \/ GenIncludeDirective
  \/ GenIncludeFunc
  \/ IncludeFileReturn
  \/ GenerateSourceReturn
  \/ CompilePrecompile
  \/ CompileFinish
  \/ Render
  \/ RunThrow
  \/ RunInclude
  \/ RunClientInclude
  \/ RunIncludeUnbound
  \/ IncludeReturn
  \/ RunReturn

Spec == Init /\ [][Next]_vars

-----------------------------------------------------------------------------
(* The pure functions, each applied to inputs drawn from a bounded set.    *)

RethrowInit == ProgInit /\ pin \in RethrowInputs /\ pout = NoOutput

CallRethrow ==
  /\ pin.fn = "rethrow"
  /\ ~pout.done
  /\ pout' = Output(rethrow(TextOfLines(pin.n), pin.lineno))
  /\ UNCHANGED <<progVars, pin>>

RethrowNext == CallRethrow

SpecRethrow == RethrowInit /\ [][RethrowNext]_vars

EmitInit == ProgInit /\ pin \in NormInputs /\ pout = NoOutput

CallEmitTag ==
  /\ pin.fn = "emit"
  /\ ~pout.done
  /\ pout' = Output(EmitTag(pin.prefix, pin.content))
  /\ UNCHANGED <<progVars, pin>>

EmitNext == CallEmitTag

SpecEmit == EmitInit /\ [][EmitNext]_vars

-----------------------------------------------------------------------------
(* The claims.                                                             *)

\* C1: for every include resolution a Template performs (statement form,
\* client-mode registration of a call form, precompile entry, runtime include
\* of the wrapper), the PathStack when the include finishes, normally or by
\* raising, equals the PathStack just before it started.
C1_PathStackScoped == \A e \in incDone : e.after = e.before

\* C2: a relative include path is resolved against the directory of the
\* template whose text contains the include, an absolute one against the
\* configured root (default "/").  Stated for the includes written in a
\* template text, of Templates that resolve paths (no page map).
C2_ResolvedAgainstOwner ==
  (lastRes.how \in {"stmt", "call", "rt"} /\ ~lastRes.usePages /\ lastRes.outcome = "ok")
    => lastRes.filename =
         IF lastRes.rel
           THEN resolveInclude(lastRes.path, lastRes.owner, FALSE)
           ELSE resolveInclude(StripLeadingSlashes(lastRes.path),
                               IF lastRes.root = Undef THEN <<Slash>> ELSE lastRes.root,
                               TRUE)

\* C3 as stated: between two clearCache calls, the cache-enabled compile calls
\* for one filename assemble the template at most once.
C3_AssembledAtMostOnce ==
  \A k \in DOMAIN topAsm :
    k[1] # Undef => Count(topAsm, <<k[1], TRUE>>) + Count(topAsm, <<k[1], FALSE>>) <= 1

\* C3 as amended: between two clearCache calls, the cache-enabled compile calls
\* for one filename that do not use a page map assemble the template to
\* completion at most once; such a call returns the function the cache holds
\* for the filename when it returns, and when the cache held one at the start
\* that is the function it returns, with nothing assembled.
C3_Amended ==
  /\ \A k \in DOMAIN topAsm : (k[1] # Undef /\ ~k[2]) => topAsm[k] <= 1
  /\ (lastCall.done /\ lastCall.cache /\ ~lastCall.usePages /\ lastCall.filename # Undef)
       => /\ lastCall.fn = lastCall.stored
          /\ lastCall.had => (lastCall.hit /\ lastCall.fn = lastCall.held)

\* a second cache-enabled compile of a filename was served from the cache
\* after a first one assembled and stored the template
C3_Witness ==
  /\ lastCall.done /\ lastCall.hit
  /\ Count(topAsm, <<lastCall.filename, FALSE>>) = 1
  /\ lastCall.fn = cache[lastCall.filename]

\* C4: with loadOnlyOnce or client set, one Template fetches and assembles
\* each resolved include identifier at most once.
C4_AssembledOncePerTemplate ==
  \A k \in DOMAIN asmCount :
    (templates[k[1]].opts.loadOnlyOnce \/ templates[k[1]].opts.client)
      => asmCount[k] <= 1

\* C5: every program an include resolution of a Template obtained (assembled,
\* or served from the DependencyMap or the GlobalCache) was assembled under
\* that Template's own options.
C5_OptionsFixedPerCompile ==
  \A e \in incDone :
    e.fn # 0 => funcs[e.fn].localsName = templates[e.tid].opts.localsName

\* C6: the include function of a client program finds every include the
\* compile registered: its lookup never raises the missing-template error.
C6_RegisteredKeyFound ==
  ~(result.kind = "error" /\ result.err = "can not find template")

\* C7: for an error at line L of a source of N lines the context is exactly the
\* lines max(1, L-3) .. min(N, L+3), each with its number, only line L marked.
C7_Window ==
  (pin.fn = "rethrow" /\ pout.done)
    => LET lo == Max(1, pin.lineno - 3)
           hi == Min(pin.n, pin.lineno + 3)
       IN  pout.val = [i \in 1..(hi - lo + 1) |->
                         [mark |-> (lo + i - 1 = pin.lineno), num |-> lo + i - 1,
                          line |-> TextOfLines(pin.n)[lo + i - 1]]]

RECURSIVE SkipTrailingSpaces(_)
SkipTrailingSpaces(c) ==
  IF Len(c) > 0 /\ c[Len(c)] = " " THEN SkipTrailingSpaces(Front(c)) ELSE c

Trim(c) == SkipTrailingSpaces(SkipSpaces(c))

\* C8: a tag's content is replaced by the empty-string literal if and only if
\* its trimmed content is exactly undefined or exactly null; any other content
\* goes into the program unchanged.
C8_ExactWordsOnly ==
  (pin.fn = "emit" /\ pout.done /\ pin.prefix # "comment")
    => pout.val.content =
         IF Trim(pin.content) \in {<<"undefined">>, <<"null">>}
           THEN EmptyStringLiteral ELSE pin.content

\* C9 as stated: a relative include resolved while the enclosing filename is
\* undefined raises the configuration error, before any fetch, with the
\* PathStack, the DependencyMap and the GlobalCache unchanged.
C9_RelativeWithoutFilename ==
  (lastRes.how # None /\ lastRes.rel /\ lastRes.parent = Undef)
    => (lastRes.outcome = "configError" /\ ~lastRes.fetched /\ lastRes.same)

\* C9 as amended: the same, for Templates that resolve paths (no page map).
C9_Amended ==
  (lastRes.how # None /\ lastRes.rel /\ lastRes.parent = Undef /\ ~lastRes.usePages)
    => (lastRes.outcome = "configError" /\ ~lastRes.fetched /\ lastRes.same)

\* a relative include of a text compiled without filename raised the error
C9_Witness ==
  /\ lastRes.how = "stmt" /\ lastRes.rel /\ lastRes.parent = Undef /\ ~lastRes.usePages
  /\ lastRes.outcome = "configError"
  /\ result = ErrorResult("configError")
  /\ Idle

\* C10: every call of a loaded program made by the wrapper, by its include
\* closure or by the include function of a client program binds the
\* program's `include` to an include function and `rethrow` to rethrow.
C10_ProgramArguments ==
  \A i \in 1..Len(stack) :
    (stack[i].k = "run" /\ stack[i].site \in {"wrapper", "closure", "clientInclude"})
      => /\ stack[i].inc.v \in {"closure", "clientInclude"}
         /\ stack[i].rth.v = "rethrowFn"

\* the include targets the statement-form tags of a text name, as the resolver
\* resolves them for a template of that filename (page keys with a page map)
StmtTargets(text, filename, o) ==
  {r.val : r \in {x \in {IF o.usePages THEN [ok |-> TRUE, val |-> text[i].p]
                           ELSE getIncludePath(text[i].p, filename, o.root) :
                             i \in {j \in 1..Len(text) : text[j].k = "stmt"}} : x.ok}}

\* the texts the resolver fetches
Sources(o) == IF o.usePages THEN Pages ELSE Files

\* the nodes reachable from the set S in the statement-form include graph
RECURSIVE StmtReach(_, _)
StmtReach(S, o) ==
  LET more == S \cup UNION {StmtTargets(Sources(o)[n], n, o) :
                              n \in S \cap DOMAIN Sources(o)}
  IN  IF more = S THEN S ELSE StmtReach(more, o)

\* the statement-form include graph reachable from Template t has a cycle
StmtCyclic(t) ==
  \E n \in StmtReach(StmtTargets(t.templateText, t.opts.filename, t.opts), t.opts) :
    /\ n \in DOMAIN Sources(t.opts)
    /\ n \in StmtReach(StmtTargets(Sources(t.opts)[n], n, t.opts), t.opts)

\* C11: a compile ends by exhausting the call stack (the bounded form of
\* recursing forever) if and only if the statement-form include graph
\* reachable from its template has a cycle, with or without cache and
\* loadOnlyOnce; otherwise it returns or raises an ordinary error.
C11_TerminatesIffAcyclic ==
  [][(stack # << >> /\ stack' = << >> /\ stack[1].k = "compile")
       => ((result'.kind = "error" /\ result'.err = "rangeError")
             <=> StmtCyclic(templates[stack[1].tid]))]_vars

\* C12: the GlobalCache never hands a function to a reader that expects the
\* other kind: every function exports.compile has returned for a compile that
\* is not a client compile, built or served from the cache, is a returnedFn
\* wrapper (callable with data alone), never a bare assembled program; and
\* every function an include resolution obtained is an assembled program
\* taking (data, escape, include, rethrow), never a wrapper (which can reach
\* an include only through the GlobalCache).
C12_CacheKinds ==
  /\ \A fn \in returned : funcs[fn].kind # "program"
  /\ \A e \in incDone : e.fn # 0 => funcs[e.fn].kind = "program"

====
